---- MODULE Spec2Model ----
(***************************************************************************)
(* Voter distribution map: the App component (points store, form, filter,  *)
(* voter rosters, persistence to localStorage) and the MapSearch component *)
(* (debounced query, multi-strategy place-name search).                    *)
(*                                                                         *)
(* Spec        one App instance over the localStorage slot                 *)
(* SpecShared  two App instances (two tabs) over the same slot             *)
(* SpecFilter  one App instance loaded with three points: filter, roster   *)
(* SpecForm    one App instance: the form and the point list               *)
(* SpecModal   one App instance with the voter modal in use                *)
(* SpecSearch  one MapSearch component with its timer and its requests     *)
(***************************************************************************)
EXTENDS Integers, Sequences, FiniteSets, Bags, TLC

VARIABLES
    storage,            \* the slot localStorage['populationMapPoints']
    storageAccess,      \* "ok", or "denied": every localStorage call throws
    lastWrite,          \* history: who called setItem last, and with which points
    console,            \* the messages written with console.error
    issued,             \* the ids crypto.randomUUID() has returned so far
    phase,              \* per App instance: "unmounted" | "mounted"
    points,             \* per App instance: LocationPoint[]
    tempPoint,          \* per App instance: {lat,lng} | null
    name,               \* per App instance: form field
    district,           \* per App instance: form field
    count,              \* per App instance: number | ''
    hiddenPointIds,     \* per App instance: string[]
    selectedDistrict,   \* per App instance: string
    selectedSchoolId,   \* per App instance: string | null
    persistPending,     \* per App instance: the [points] effect is scheduled
    newVoterName,       \* per App instance: the name input of VoterManagerModal
    newVoterPhone,      \* per App instance: the phone input of VoterManagerModal
    query,              \* MapSearch: the input's value
    suggestions,        \* MapSearch: NominatimResult[]
    isSearching,        \* MapSearch
    showSuggestions,    \* MapSearch
    searchResults,      \* MapSearch: the places marked on the map
    timers,             \* MapSearch: the pending setTimeouts of the debounce effect
    queryAge,           \* MapSearch: ms since query last changed (capped)
    lastStep,           \* history: what the last step of MapSearch was
    cascades            \* MapSearch: the bag of fetchSuggestions calls in flight

appVars == <<storage, storageAccess, lastWrite, console, issued, phase, points, tempPoint, name, district, count,
             hiddenPointIds, selectedDistrict, selectedSchoolId,
             persistPending, newVoterName, newVoterPhone>>
searchVars == <<query, suggestions, isSearching, showSuggestions, searchResults, timers,
                queryAge, lastStep,
                cascades>>
vars == <<appVars, searchVars>>

(***************************************************************************)
(* Bounds of the model                                                     *)
(***************************************************************************)
MaxPoints == 2      \* points an instance holds at most
MaxVoters == 1      \* voters a roster holds at most
MaxCascades == 2    \* fetchSuggestions calls in flight at most

(***************************************************************************)
(* Constants of the program                                                *)
(***************************************************************************)
DebounceMs == 500   \* the setTimeout delay of the debounce effect
MinQueryLen == 2    \* query.trim().length >= 2
MinCoreLen == 3     \* coreName.length >= 3

(***************************************************************************)
(* null / '' : a value that may be missing is a sequence of length 0 or 1  *)
(***************************************************************************)
None == <<>>
Some(v) == <<v>>
IsSome(o) == Len(o) = 1
Get(o) == o[1]

\* Array.prototype.filter: the elements satisfying Keep, in order
SeqFilter(s, Keep(_)) == SelectSeq(s, Keep)

\* Array.prototype.map
SeqMap(s, F(_)) == [k \in 1..Len(s) |-> F(s[k])]

\* Array.prototype.includes
Includes(s, v) == \E k \in 1..Len(s) : s[k] = v

(***************************************************************************)
(* The values the inputs are drawn from                                    *)
(***************************************************************************)
\* the ids crypto.randomUUID() returns, in the order it returns them (which id
\* comes is immaterial: only that it is a new one)
PointIdSeq == <<"p1", "p2", "p3">>
VoterIdSeq == <<"v1", "v2", "v3">>
PointIds == {PointIdSeq[k] : k \in 1..Len(PointIdSeq)}
VoterIds == {VoterIdSeq[k] : k \in 1..Len(VoterIdSeq)}
\* the ids of the points and voters of an earlier session
SavedPointIds == {"s1", "s2", "s3"}
SavedVoterIds == {"w1"}
Coords == {[lat |-> 33, lng |-> 44]}
NameInputs == {"", "a"}
DistrictInputs == {"", "d1", "d2"}
CountInputs == {None, Some(0), Some(5)}
FullNames == {"x"}
PhoneNumbers == {"", "07"}
Times == {7}
\* what is typed into the inputs of the voter modal: '', ' ', ' x y ' and
\* '', ' 07'
NameTexts == {<<>>, <<" ">>, <<" ", "x", " ", "y", " ">>}
PhoneTexts == {<<>>, <<" ", "0", "7">>}
\* the strings those texts spell once trimmed, or as typed
TypedStrings == {"x y", " x y ", " 07"}
\* the numbers a JSON text of the model can hold
JsonNumbers == 0..50
\* the strings a JSON text of the model can hold
JsonStrings == PointIds \cup VoterIds \cup SavedPointIds \cup SavedVoterIds \cup NameInputs \cup DistrictInputs
               \cup FullNames \cup PhoneNumbers \cup TypedStrings
               \cup {"id", "lat", "lng", "name", "district", "count", "createdAt",
                     "voters", "fullName", "phoneNumber"}

(***************************************************************************)
(* JSON text: a sequence of tokens.  Punctuation is "[", "]", "{", "}",    *)
(* ":" and ","; a string is its quoted form; a number its decimal form.    *)
(***************************************************************************)
Quote(s) == "\"" \o s \o "\""
NumTok(n) == ToString(n)

\* JSON.stringify of a Voter (key order is insertion order, App.tsx 517-522)
JSONstringifyVoter(v) ==
    <<"{", Quote("id"), ":", Quote(v.id), ",",
           Quote("fullName"), ":", Quote(v.fullName), ",",
           Quote("phoneNumber"), ":", Quote(v.phoneNumber), ",",
           Quote("createdAt"), ":", NumTok(v.createdAt), "}">>

RECURSIVE JSONstringifyVoters(_)
JSONstringifyVoters(vs) ==
    IF vs = <<>> THEN <<>>
    ELSE JSONstringifyVoter(Head(vs))
         \o (IF Tail(vs) = <<>> THEN <<>> ELSE <<",">>)
         \o JSONstringifyVoters(Tail(vs))

\* mutant: a serializer that leaves the roster out
JSONstringifyPointNoVoters(p) ==
    <<"{", Quote("id"), ":", Quote(p.id), ",",
           Quote("lat"), ":", NumTok(p.lat), ",",
           Quote("lng"), ":", NumTok(p.lng), ",",
           Quote("name"), ":", Quote(p.name), ",",
           Quote("district"), ":", Quote(p.district), ",",
           Quote("count"), ":", NumTok(p.count), ",",
           Quote("createdAt"), ":", NumTok(p.createdAt), "}">>

\* JSON.stringify of a LocationPoint: the seven keys of handleAddPoint's
\* literal, then "voters" when the point has the property (added last by the
\* spread of handleAddVoter / handleDeleteVoter)
JSONstringifyPoint(p) ==
    <<"{", Quote("id"), ":", Quote(p.id), ",",
           Quote("lat"), ":", NumTok(p.lat), ",",
           Quote("lng"), ":", NumTok(p.lng), ",",
           Quote("name"), ":", Quote(p.name), ",",
           Quote("district"), ":", Quote(p.district), ",",
           Quote("count"), ":", NumTok(p.count), ",",
           Quote("createdAt"), ":", NumTok(p.createdAt)>>
    \o (IF "voters" \in DOMAIN p
        THEN <<",", Quote("voters"), ":", "[">> \o JSONstringifyVoters(p.voters)
             \o <<"]">>
        ELSE <<>>)
    \o <<"}">>

RECURSIVE JSONstringifyList(_)
JSONstringifyList(ps) ==
    IF ps = <<>> THEN <<>>
    ELSE JSONstringifyPoint(Head(ps))
         \o (IF Tail(ps) = <<>> THEN <<>> ELSE <<",">>)
         \o JSONstringifyList(Tail(ps))

\* JSON.stringify(points)
JSONstringify(ps) == <<"[">> \o JSONstringifyList(ps) \o <<"]">>

IsStringTok(t) == \E s \in JsonStrings : Quote(s) = t
Unquote(t) == CHOOSE s \in JsonStrings : Quote(s) = t
IsNumTok(t) == \E n \in JsonNumbers : NumTok(n) = t
NumOf(t) == CHOOSE n \in JsonNumbers : NumTok(n) = t

ParseFail == [ok |-> FALSE, val |-> <<>>, next |-> 0]
ParseOk(v, n) == [ok |-> TRUE, val |-> v, next |-> n]

\* the object built from key/value pairs (a later duplicate key wins)
ObjectOf(pairs) ==
    [k \in {pairs[j][1] : j \in 1..Len(pairs)} |->
        LET last == CHOOSE j \in 1..Len(pairs) :
                        /\ pairs[j][1] = k
                        /\ \A m \in (j+1)..Len(pairs) : pairs[m][1] # k
        IN  pairs[last][2]]

RECURSIVE ParseValue(_, _), ParseElements(_, _, _), ParseMembers(_, _, _)
\* one JSON value starting at token k
ParseValue(t, k) ==
    IF k > Len(t) THEN ParseFail
    ELSE IF t[k] = "[" THEN
        IF k + 1 <= Len(t) /\ t[k+1] = "]" THEN ParseOk(<<>>, k + 2)
        ELSE ParseElements(t, k + 1, <<>>)
    ELSE IF t[k] = "{" THEN
        IF k + 1 <= Len(t) /\ t[k+1] = "}" THEN ParseOk(<<>>, k + 2)
        ELSE ParseMembers(t, k + 1, <<>>)
    ELSE IF IsStringTok(t[k]) THEN ParseOk(Unquote(t[k]), k + 1)
    ELSE IF IsNumTok(t[k]) THEN ParseOk(NumOf(t[k]), k + 1)
    ELSE ParseFail

\* the elements of an array, after "[" or ","
ParseElements(t, k, acc) ==
    LET r == ParseValue(t, k) IN
    IF ~r.ok \/ r.next > Len(t) THEN ParseFail
    ELSE IF t[r.next] = "," THEN ParseElements(t, r.next + 1, Append(acc, r.val))
    ELSE IF t[r.next] = "]" THEN ParseOk(Append(acc, r.val), r.next + 1)
    ELSE ParseFail

\* the members of an object, after "{" or ","
ParseMembers(t, k, acc) ==
    IF k + 1 > Len(t) \/ ~IsStringTok(t[k]) \/ t[k+1] # ":" THEN ParseFail
    ELSE LET r == ParseValue(t, k + 2) IN
         IF ~r.ok \/ r.next > Len(t) THEN ParseFail
         ELSE LET acc2 == Append(acc, <<Unquote(t[k]), r.val>>) IN
              IF t[r.next] = "," THEN ParseMembers(t, r.next + 1, acc2)
              ELSE IF t[r.next] = "}" THEN ParseOk(ObjectOf(acc2), r.next + 1)
              ELSE ParseFail

\* JSON.parse(text): ok is FALSE where JSON.parse throws a SyntaxError
JSONparse(t) ==
    LET r == ParseValue(t, 1) IN
    IF r.ok /\ r.next = Len(t) + 1 THEN [ok |-> TRUE, val |-> r.val]
    ELSE [ok |-> FALSE, val |-> <<>>]

(***************************************************************************)
(* The localStorage slot                                                   *)
(***************************************************************************)
\* the key is absent: getItem returns null
Absent == [has |-> FALSE, text |-> <<>>]
Slot(text) == [has |-> TRUE, text |-> text]

\* a list an earlier session saved: one point, with a roster
SavedSample ==
    <<[id |-> "s1", lat |-> 33, lng |-> 44, name |-> "a", district |-> "d2",
       count |-> 5, createdAt |-> 7,
       voters |-> <<[id |-> "w1", fullName |-> "x", phoneNumber |-> "",
                     createdAt |-> 7]>>]>>

\* what the slot may hold when the page is first opened: nothing, the empty
\* string, a saved list, and texts JSON.parse rejects (a saved list cut
\* short, a list with a stray token)
InitialSlots ==
    {Absent, Slot(<<>>), Slot(JSONstringify(<<>>)), Slot(JSONstringify(SavedSample)),
     Slot(SubSeq(JSONstringify(SavedSample), 1, 20)), Slot(<<"[", "oops", "]">>)}

(***************************************************************************)
(* App: derived values                                                     *)
(***************************************************************************)
\* the `[points, setPoints] = useState(() => {...})` initializer: the initial
\* points, whether the catch branch ran, and whether an exception left the
\* initializer (the try block spans all of it: none does)
\* mutant: no try/catch around the parse, a SyntaxError leaves the initializer
LoadPointsUncaught(slot, access) ==
    IF access = "denied" THEN [points |-> <<>>, caught |-> TRUE, thrown |-> FALSE]
    ELSE IF ~slot.has \/ slot.text = <<>>
         THEN [points |-> <<>>, caught |-> FALSE, thrown |-> FALSE]
    ELSE LET r == JSONparse(slot.text) IN
         IF r.ok THEN [points |-> r.val, caught |-> FALSE, thrown |-> FALSE]
         ELSE [points |-> <<>>, caught |-> FALSE, thrown |-> TRUE]

LoadPoints(slot, access) ==
    IF access = "denied" THEN [points |-> <<>>, caught |-> TRUE, thrown |-> FALSE]
    ELSE IF ~slot.has \/ slot.text = <<>>
         THEN [points |-> <<>>, caught |-> FALSE, thrown |-> FALSE]
    ELSE LET r == JSONparse(slot.text) IN
         IF r.ok THEN [points |-> r.val, caught |-> FALSE, thrown |-> FALSE]
         ELSE [points |-> <<>>, caught |-> TRUE, thrown |-> FALSE]

LoadErrorMessage == "Error loading points from localStorage:"

HasVoters(p) == "voters" \in DOMAIN p
\* p.voters || []
VotersOf(p) == IF HasVoters(p) THEN p.voters ELSE <<>>
\* { ...p, voters: vs }
WithVoters(p, vs) ==
    [k \in DOMAIN p \cup {"voters"} |-> IF k = "voters" THEN vs ELSE p[k]]

IdsOf(ps) == {ps[k].id : k \in 1..Len(ps)}
VoterIdsOf(ps) == UNION {IdsOf(VotersOf(ps[k])) : k \in 1..Len(ps)}

\* crypto.randomUUID() never returns the same id twice: the next unused id of
\* the sequence, none when the sequence is used up
FirstUnused(ids) ==
    LET free == {k \in 1..Len(ids) : ids[k] \notin issued}
    IN  IF free = {} THEN {}
        ELSE {ids[CHOOSE k \in free : \A m \in free : k <= m]}
FreshPointIds == FirstUnused(PointIdSeq)
FreshVoterIds == FirstUnused(VoterIdSeq)

\* districtFilteredPoints
DistrictFilteredPoints(i) ==
    IF selectedDistrict[i] = "" THEN points[i]
    ELSE LET Keep(p) == p.district = selectedDistrict[i]
         IN  SeqFilter(points[i], Keep)

\* mutant: the hidden-id filter applied to points, the district filter skipped
FilteredPointsNoDistrict(i) ==
    LET Keep(p) == ~Includes(hiddenPointIds[i], p.id)
    IN  SeqFilter(points[i], Keep)

\* filteredPoints
FilteredPoints(i) ==
    LET Keep(p) == ~Includes(hiddenPointIds[i], p.id)
    IN  SeqFilter(DistrictFilteredPoints(i), Keep)

\* uniqueDistricts (as a set: the options of the district <select>)
UniqueDistricts(i) == {points[i][k].district : k \in 1..Len(points[i])} \ {""}

(***************************************************************************)
(* App: construction, persistence                                          *)
(***************************************************************************)
formVars == <<tempPoint, name, district, count>>
modalVars == <<newVoterName, newVoterPhone>>
filterVars == <<hiddenPointIds, selectedDistrict>>

Ready(i) == phase[i] = "mounted" /\ ~persistPending[i]

\* the component is constructed and rendered for the first time: the useState
\* initializers run, and the [points] effect is scheduled for after the commit
Mount(i) ==
    /\ phase[i] = "unmounted"
    /\ LET r == LoadPoints(storage, storageAccess) IN
        /\ points' = [points EXCEPT ![i] = r.points]
        /\ console' = IF r.caught THEN console \cup {LoadErrorMessage} ELSE console
        /\ phase' = [phase EXCEPT ![i] = IF r.thrown THEN "crashed" ELSE "mounted"]
        /\ persistPending' = [persistPending EXCEPT ![i] = ~r.thrown]
    /\ UNCHANGED <<storage, storageAccess, lastWrite, issued, formVars, filterVars,
                   selectedSchoolId, modalVars, searchVars>>

\* mutant: the effect merges its points into the list the slot already holds
PersistedTextMerged(i) ==
    LET Keep(p) == p.id \notin IdsOf(points[i])
    IN  JSONstringify(SeqFilter(LoadPoints(storage, storageAccess).points, Keep)
                      \o points[i])

\* the text the [points] effect hands to setItem
PersistedText(i) == JSONstringify(points[i])

\* the effect `localStorage.setItem('populationMapPoints', JSON.stringify(points))`;
\* a throw inside an effect is not caught anywhere: React unmounts the tree
PersistEffect(i) ==
    /\ phase[i] = "mounted"
    /\ persistPending[i]
    /\ persistPending' = [persistPending EXCEPT ![i] = FALSE]
    /\ IF storageAccess = "denied"
       THEN /\ phase' = [phase EXCEPT ![i] = "crashed"]
            /\ UNCHANGED <<storage, lastWrite>>
       ELSE /\ storage' = Slot(PersistedText(i))
            /\ lastWrite' = Some([by |-> i, points |-> points[i]])
            /\ UNCHANGED phase
    /\ UNCHANGED <<storageAccess, console, issued, points, formVars, filterVars,
                   selectedSchoolId, modalVars, searchVars>>

\* the page is closed (or reloaded): the instance's state is gone
Close(i) ==
    /\ Ready(i)
    /\ phase' = [phase EXCEPT ![i] = "unmounted"]
    /\ points' = [points EXCEPT ![i] = <<>>]
    /\ tempPoint' = [tempPoint EXCEPT ![i] = None]
    /\ name' = [name EXCEPT ![i] = ""]
    /\ district' = [district EXCEPT ![i] = ""]
    /\ count' = [count EXCEPT ![i] = None]
    /\ hiddenPointIds' = [hiddenPointIds EXCEPT ![i] = <<>>]
    /\ selectedDistrict' = [selectedDistrict EXCEPT ![i] = ""]
    /\ selectedSchoolId' = [selectedSchoolId EXCEPT ![i] = None]
    /\ newVoterName' = [newVoterName EXCEPT ![i] = <<>>]
    /\ newVoterPhone' = [newVoterPhone EXCEPT ![i] = <<>>]
    /\ UNCHANGED <<storage, storageAccess, lastWrite, console, issued, persistPending,
                   searchVars>>

(***************************************************************************)
(* App: the form                                                           *)
(***************************************************************************)
handleMapClick(i, c) ==
    /\ Ready(i)
    /\ tempPoint' = [tempPoint EXCEPT ![i] = Some(c)]
    /\ UNCHANGED <<storage, storageAccess, lastWrite, console, issued, phase, points, name, district,
                   count, filterVars, selectedSchoolId, persistPending, modalVars, searchVars>>

\* the inputs of the form exist only while tempPoint is set
setName(i, v) ==
    /\ Ready(i)
    /\ tempPoint[i] # None
    /\ name' = [name EXCEPT ![i] = v]
    /\ UNCHANGED <<storage, storageAccess, lastWrite, console, issued, phase, points, tempPoint,
                   district, count, filterVars, selectedSchoolId, persistPending,
                   modalVars, searchVars>>

setDistrict(i, v) ==
    /\ Ready(i)
    /\ tempPoint[i] # None
    /\ district' = [district EXCEPT ![i] = v]
    /\ UNCHANGED <<storage, storageAccess, lastWrite, console, issued, phase, points, tempPoint, name,
                   count, filterVars, selectedSchoolId, persistPending, modalVars, searchVars>>

setCount(i, v) ==
    /\ Ready(i)
    /\ tempPoint[i] # None
    /\ count' = [count EXCEPT ![i] = v]
    /\ UNCHANGED <<storage, storageAccess, lastWrite, console, issued, phase, points, tempPoint, name,
                   district, filterVars, selectedSchoolId, persistPending,
                   modalVars, searchVars>>

cancelSelection(i) ==
    /\ Ready(i)
    /\ tempPoint' = [tempPoint EXCEPT ![i] = None]
    /\ name' = [name EXCEPT ![i] = ""]
    /\ district' = [district EXCEPT ![i] = ""]
    /\ count' = [count EXCEPT ![i] = None]
    /\ UNCHANGED <<storage, storageAccess, lastWrite, console, issued, phase, points, filterVars,
                   selectedSchoolId, persistPending, modalVars, searchVars>>

\* mutant: the guard does not look at district
FormIncompleteNoDistrict(i) ==
    tempPoint[i] = None \/ name[i] = "" \/ count[i] = None

\* the guard of handleAddPoint: `!tempPoint || !name || !district || count === ''`
FormIncomplete(i) ==
    tempPoint[i] = None \/ name[i] = "" \/ district[i] = "" \/ count[i] = None

\* the newPoint literal of handleAddPoint
NewPoint(i, id, now) ==
    [id |-> id, lat |-> Get(tempPoint[i]).lat, lng |-> Get(tempPoint[i]).lng,
     name |-> name[i], district |-> district[i], count |-> Get(count[i]),
     createdAt |-> now]

\* mutant: the new point is put in front of the list
handleAddPointPrepend(i, id, now) ==
    /\ Ready(i)
    /\ IF FormIncomplete(i)
       THEN UNCHANGED vars
       ELSE /\ Len(points[i]) < MaxPoints
            /\ points' = [points EXCEPT ![i] = <<NewPoint(i, id, now)>> \o @]
            /\ issued' = issued \cup {id}
            /\ name' = [name EXCEPT ![i] = ""]
            /\ district' = [district EXCEPT ![i] = ""]
            /\ count' = [count EXCEPT ![i] = None]
            /\ tempPoint' = [tempPoint EXCEPT ![i] = None]
            /\ persistPending' = [persistPending EXCEPT ![i] = TRUE]
            /\ UNCHANGED <<storage, storageAccess, lastWrite, console, phase, filterVars,
                           selectedSchoolId, modalVars, searchVars>>

handleAddPoint(i, id, now) ==
    /\ Ready(i)
    /\ IF FormIncomplete(i)
       THEN UNCHANGED vars
       ELSE /\ Len(points[i]) < MaxPoints
            /\ points' = [points EXCEPT ![i] = Append(@, NewPoint(i, id, now))]
            /\ issued' = issued \cup {id}
            /\ name' = [name EXCEPT ![i] = ""]
            /\ district' = [district EXCEPT ![i] = ""]
            /\ count' = [count EXCEPT ![i] = None]
            /\ tempPoint' = [tempPoint EXCEPT ![i] = None]
            /\ persistPending' = [persistPending EXCEPT ![i] = TRUE]
            /\ UNCHANGED <<storage, storageAccess, lastWrite, console, phase, filterVars,
                           selectedSchoolId, modalVars, searchVars>>

\* mutant: the array is changed in place, so React sees the same points and
\* does not run the [points] effect
handleDeletePointInPlace(i, id) ==
    /\ Ready(i)
    /\ LET Keep(p) == p.id # id
       IN  points' = [points EXCEPT ![i] = SeqFilter(@, Keep)]
    /\ UNCHANGED <<storage, storageAccess, lastWrite, console, issued, phase,
                   formVars, filterVars, selectedSchoolId, persistPending,
                   modalVars, searchVars>>

\* mutant: the filter keeps the points with the id
handleDeletePointInverted(i, id) ==
    /\ Ready(i)
    /\ LET Keep(p) == p.id = id
       IN  points' = [points EXCEPT ![i] = SeqFilter(@, Keep)]
    /\ persistPending' = [persistPending EXCEPT ![i] = TRUE]
    /\ UNCHANGED <<storage, storageAccess, lastWrite, console, issued, phase, formVars, filterVars,
                   selectedSchoolId, modalVars, searchVars>>

handleDeletePoint(i, id) ==
    /\ Ready(i)
    /\ LET Keep(p) == p.id # id
       IN  points' = [points EXCEPT ![i] = SeqFilter(@, Keep)]
    /\ persistPending' = [persistPending EXCEPT ![i] = TRUE]
    /\ UNCHANGED <<storage, storageAccess, lastWrite, console, issued, phase, formVars, filterVars,
                   selectedSchoolId, modalVars, searchVars>>

\* the total of locations in the list header: filteredPoints.length
LocationTotal(i) == Len(FilteredPoints(i))

RECURSIVE SumCount(_)
\* ps.reduce((sum, p) => sum + p.count, 0)
SumCount(ps) == IF ps = <<>> THEN 0 ELSE Head(ps).count + SumCount(Tail(ps))

\* mutant: the voter total is taken over all the points
VoterTotalUnfiltered(i) == SumCount(points[i])

\* the total of voters in the list header, before it is formatted
VoterTotal(i) == SumCount(FilteredPoints(i))

\* filteredPoints as it would be with d as the selected district
FilteredPointsFor(i, d) ==
    LET Keep(p) == /\ d = "" \/ p.district = d
                   /\ ~Includes(hiddenPointIds[i], p.id)
    IN  SeqFilter(points[i], Keep)

(***************************************************************************)
(* App: voter rosters                                                      *)
(***************************************************************************)
\* a card of the list is clicked: the voter modal opens on that point
setSelectedSchoolId(i, id) ==
    /\ Ready(i)
    /\ id \in IdsOf(FilteredPoints(i))
    /\ selectedSchoolId' = [selectedSchoolId EXCEPT ![i] = Some(id)]
    /\ UNCHANGED <<storage, storageAccess, lastWrite, console, issued, phase, points, formVars,
                   filterVars, persistPending, modalVars, searchVars>>

\* onClose of the modal
closeModal(i) ==
    /\ Ready(i)
    /\ selectedSchoolId' = [selectedSchoolId EXCEPT ![i] = None]
    /\ UNCHANGED <<storage, storageAccess, lastWrite, console, issued, phase, points, formVars,
                   filterVars, persistPending, modalVars, searchVars>>

\* the newVoter literal of handleAddVoter
NewVoter(id, fullName, phoneNumber, now) ==
    [id |-> id, fullName |-> fullName, phoneNumber |-> phoneNumber, createdAt |-> now]

\* mutant: count follows the length of the roster
AddVoterToCounting(ps, schoolId, v) ==
    LET F(p) == IF p.id = schoolId
                THEN [WithVoters(p, Append(VotersOf(p), v)) EXCEPT !.count = @ + 1]
                ELSE p
    IN  SeqMap(ps, F)

\* the points after handleAddVoter's setPoints
AddVoterTo(ps, schoolId, v) ==
    LET F(p) == IF p.id = schoolId THEN WithVoters(p, Append(VotersOf(p), v)) ELSE p
    IN  SeqMap(ps, F)

\* mutant: the voter is removed from every roster that holds the id
DeleteVoterFromAll(ps, schoolId, voterId) ==
    LET Keep(v) == v.id # voterId
        F(p) == IF p.id = schoolId \/ voterId \in IdsOf(VotersOf(p))
                THEN WithVoters(p, SeqFilter(VotersOf(p), Keep))
                ELSE p
    IN  SeqMap(ps, F)

\* the points after handleDeleteVoter's setPoints
DeleteVoterFrom(ps, schoolId, voterId) ==
    LET Keep(v) == v.id # voterId
        F(p) == IF p.id = schoolId THEN WithVoters(p, SeqFilter(VotersOf(p), Keep))
                ELSE p
    IN  SeqMap(ps, F)

\* handleAddVoter as the modal calls it (its onAddVoter prop): what the handler
\* does to the state of App
onAddVoter(i, fullName, phoneNumber, id, now) ==
    /\ Ready(i)
    /\ IF selectedSchoolId[i] = None
       THEN UNCHANGED <<storage, storageAccess, lastWrite, console, issued, phase, points,
                        formVars, filterVars, selectedSchoolId, persistPending,
                        searchVars>>
       ELSE /\ \A k \in 1..Len(points[i]) :
                    points[i][k].id = Get(selectedSchoolId[i])
                        => Len(VotersOf(points[i][k])) < MaxVoters
            /\ points' = [points EXCEPT ![i] =
                            AddVoterTo(@, Get(selectedSchoolId[i]),
                                       NewVoter(id, fullName, phoneNumber, now))]
            /\ issued' = issued \cup {id}
            /\ persistPending' = [persistPending EXCEPT ![i] = TRUE]
            /\ UNCHANGED <<storage, storageAccess, lastWrite, console, phase, formVars,
                           filterVars, selectedSchoolId, searchVars>>

handleAddVoter(i, fullName, phoneNumber, id, now) ==
    /\ onAddVoter(i, fullName, phoneNumber, id, now)
    /\ UNCHANGED modalVars

handleDeleteVoter(i, voterId) ==
    /\ Ready(i)
    /\ IF selectedSchoolId[i] = None
       THEN UNCHANGED vars
       ELSE /\ points' = [points EXCEPT ![i] =
                            DeleteVoterFrom(@, Get(selectedSchoolId[i]), voterId)]
            /\ persistPending' = [persistPending EXCEPT ![i] = TRUE]
            /\ UNCHANGED <<storage, storageAccess, lastWrite, console, issued, phase, formVars,
                           filterVars, selectedSchoolId, modalVars, searchVars>>

(***************************************************************************)
(* App: the filter                                                         *)
(***************************************************************************)
\* the district <select>: "" (all districts) or one of uniqueDistricts
setSelectedDistrict(i, d) ==
    /\ Ready(i)
    /\ d = "" \/ d \in UniqueDistricts(i)
    /\ selectedDistrict' = [selectedDistrict EXCEPT ![i] = d]
    /\ UNCHANGED <<storage, storageAccess, lastWrite, console, issued, phase, points, formVars,
                   hiddenPointIds, selectedSchoolId, persistPending, modalVars, searchVars>>

\* mutant: clicking a hidden row shows every point again
ToggleIdClearing(hidden, id) ==
    IF Includes(hidden, id) THEN <<>> ELSE Append(hidden, id)

\* the hidden ids after togglePointVisibility(id)
ToggleId(hidden, id) ==
    IF Includes(hidden, id)
    THEN LET Keep(hid) == hid # id IN SeqFilter(hidden, Keep)
    ELSE Append(hidden, id)

\* a row of the filter list (sortedPointsForFilter) is clicked
togglePointVisibility(i, id) ==
    /\ Ready(i)
    /\ id \in IdsOf(DistrictFilteredPoints(i))
    /\ hiddenPointIds' = [hiddenPointIds EXCEPT ![i] = ToggleId(@, id)]
    /\ UNCHANGED <<storage, storageAccess, lastWrite, console, issued, phase, points, formVars,
                   selectedDistrict, selectedSchoolId, persistPending, modalVars, searchVars>>

\* mutant: "hide all" hides the points of the selected district only
toggleAllPointsInDistrict(i, show) ==
    /\ Ready(i)
    /\ LET Id(p) == p.id IN
       hiddenPointIds' = [hiddenPointIds EXCEPT ![i] =
                            IF show THEN <<>> ELSE SeqMap(DistrictFilteredPoints(i), Id)]
    /\ UNCHANGED <<storage, storageAccess, lastWrite, console, issued, phase, points, formVars,
                   selectedDistrict, selectedSchoolId, persistPending, modalVars, searchVars>>

\* the "show all" (true) and "hide all" (false) buttons of the filter panel
toggleAllPoints(i, show) ==
    /\ Ready(i)
    /\ LET Id(p) == p.id IN
       hiddenPointIds' = [hiddenPointIds EXCEPT ![i] =
                            IF show THEN <<>> ELSE SeqMap(points[i], Id)]
    /\ UNCHANGED <<storage, storageAccess, lastWrite, console, issued, phase, points, formVars,
                   selectedDistrict, selectedSchoolId, persistPending, modalVars, searchVars>>

(***************************************************************************)
(* What the page offers: a card (with its delete button) per point of      *)
(* filteredPoints, a delete button per voter of the modal's roster         *)
(***************************************************************************)
CardIds(i) == IdsOf(FilteredPoints(i))

\* selectedSchool?.voters || []
SelectedVoters(i) ==
    IF selectedSchoolId[i] = None THEN <<>>
    ELSE LET hit == {k \in 1..Len(points[i]) :
                        points[i][k].id = Get(selectedSchoolId[i])}
         IN  IF hit = {} THEN <<>>
             ELSE VotersOf(points[i][CHOOSE k \in hit : \A m \in hit : k <= m])

RosterIds(i) == IdsOf(SelectedVoters(i))

(***************************************************************************)
(* MapSearch: the query text.  A text is a sequence of blocks: a letter, a *)
(* space, a comma, or one whole stop word of fetchSuggestions (so that     *)
(* removing stop words removes blocks).  Madrasa stands for the Arabic     *)
(* word for "school", the first Arabic entry of stopWords.                 *)
(***************************************************************************)
Madrasa == "madrasa"
Space == " "
Comma == ","

\* the entries of stopWords the model's texts use
StopWords == {"school", "girls", Madrasa}

\* the regex has the "i" flag: a stop word matches in any letter case
LowerCase(b) == IF b = "School" THEN "school" ELSE b
IsStopWord(b) == LowerCase(b) \in StopWords

\* the number of characters of a block (the Arabic word has five)
BlockLen(b) == IF b = Madrasa THEN 5 ELSE Len(b)

RECURSIVE TextLen(_)
\* String.prototype.length
TextLen(t) == IF t = <<>> THEN 0 ELSE BlockLen(Head(t)) + TextLen(Tail(t))

RECURSIVE TrimStart(_)
TrimStart(t) == IF t # <<>> /\ Head(t) = Space THEN TrimStart(Tail(t)) ELSE t

RECURSIVE TrimEnd(_)
TrimEnd(t) ==
    IF t # <<>> /\ t[Len(t)] = Space THEN TrimEnd(SubSeq(t, 1, Len(t) - 1)) ELSE t

\* String.prototype.trim
Trim(t) == TrimEnd(TrimStart(t))

RECURSIVE CollapseSpaces(_)
\* replace(/\s+/g, " ")
CollapseSpaces(t) ==
    IF Len(t) < 2 THEN t
    ELSE IF t[1] = Space /\ t[2] = Space THEN CollapseSpaces(Tail(t))
    ELSE <<Head(t)>> \o CollapseSpaces(Tail(t))

\* replace(regex, ""): every stop word removed
StripStopWords(t) == LET Keep(b) == ~IsStopWord(b) IN SeqFilter(t, Keep)

\* coreName
CoreName(q) == Trim(CollapseSpaces(StripStopWords(q)))

\* `coreName && coreName.length >= 3 && coreName !== searchQuery`
CoreUsable(q) ==
    CoreName(q) # <<>> /\ TextLen(CoreName(q)) >= MinCoreLen /\ CoreName(q) # q

\* display_name.split(',')[0]
FirstSegment(t) ==
    LET commas == {k \in 1..Len(t) : t[k] = Comma}
    IN  IF commas = {} THEN t
        ELSE SubSeq(t, 1, (CHOOSE k \in commas : \A m \in commas : k <= m) - 1)

(***************************************************************************)
(* VoterManagerModal: the add form.  Its inputs hold texts (sequences of   *)
(* blocks); a voter's fullName and phoneNumber are strings.                *)
(***************************************************************************)
RECURSIVE TextOf(_)
\* the string a text spells
TextOf(t) == IF t = <<>> THEN "" ELSE Head(t) \o TextOf(Tail(t))

\* the inputs are rendered while the modal is open
setNewVoterName(i, v) ==
    /\ Ready(i)
    /\ selectedSchoolId[i] # None
    /\ newVoterName' = [newVoterName EXCEPT ![i] = v]
    /\ UNCHANGED <<storage, storageAccess, lastWrite, console, issued, phase, points,
                   formVars, filterVars, selectedSchoolId, persistPending,
                   newVoterPhone, searchVars>>

setNewVoterPhone(i, v) ==
    /\ Ready(i)
    /\ selectedSchoolId[i] # None
    /\ newVoterPhone' = [newVoterPhone EXCEPT ![i] = v]
    /\ UNCHANGED <<storage, storageAccess, lastWrite, console, issued, phase, points,
                   formVars, filterVars, selectedSchoolId, persistPending,
                   newVoterName, searchVars>>

\* mutant: the inputs are passed on as typed
handleAddUntrimmed(i, id, now) ==
    /\ Ready(i)
    /\ selectedSchoolId[i] # None
    /\ IF Trim(newVoterName[i]) # <<>>
       THEN /\ onAddVoter(i, TextOf(newVoterName[i]), TextOf(newVoterPhone[i]), id, now)
            /\ newVoterName' = [newVoterName EXCEPT ![i] = <<>>]
            /\ newVoterPhone' = [newVoterPhone EXCEPT ![i] = <<>>]
       ELSE UNCHANGED vars

\* the form of the modal is submitted
handleAdd(i, id, now) ==
    /\ Ready(i)
    /\ selectedSchoolId[i] # None
    /\ IF Trim(newVoterName[i]) # <<>>
       THEN /\ onAddVoter(i, TextOf(Trim(newVoterName[i])),
                          TextOf(Trim(newVoterPhone[i])), id, now)
            /\ newVoterName' = [newVoterName EXCEPT ![i] = <<>>]
            /\ newVoterPhone' = [newVoterPhone EXCEPT ![i] = <<>>]
       ELSE UNCHANGED vars

(***************************************************************************)
(* MapSearch: fetchSuggestions.  A call in flight is a record: searchQuery *)
(* q, the request it awaits, and the requests it has made before.          *)
(***************************************************************************)
\* strategy: "strict" | "fuzzy" | "relaxed" | "coreFuzzy" | "coreRelaxed" | "prefix";
\* bounded is "1" or "0" for a geocoding query, "-" for an Overpass search
Req(strategy, q, bounded) == [strategy |-> strategy, q |-> q, bounded |-> bounded]

IsOverpass(strategy) == strategy \in {"fuzzy", "coreFuzzy"}

\* Strategy 5, reached with `data`
Strategy5(q, data) ==
    IF data = <<>> /\ ~Includes(q, Madrasa) /\ ~Includes(q, "school")
    THEN Some(Req("prefix", <<Madrasa, Space>> \o q, "1"))
    ELSE None

\* mutant: the cascade has no Overpass search after the strict one
NextRequestNoOverpass(q, strategy, data) ==
    IF strategy = "strict" THEN
        IF data = <<>> THEN Some(Req("relaxed", q, "0")) ELSE None
    ELSE IF strategy = "relaxed" THEN
        IF data # <<>> THEN None ELSE Strategy5(q, data)
    ELSE None

\* the request the cascade issues after `strategy` gave `data`; None: it goes on
\* to setSuggestions(data)
NextRequest(q, strategy, data) ==
    IF strategy = "strict" THEN
        IF data = <<>> THEN Some(Req("fuzzy", q, "-")) ELSE None
    ELSE IF strategy = "fuzzy" THEN
        IF data = <<>> THEN Some(Req("relaxed", q, "0")) ELSE None
    ELSE IF strategy = "relaxed" THEN
        IF data # <<>> THEN None
        ELSE IF CoreUsable(q) THEN Some(Req("coreFuzzy", CoreName(q), "-"))
        ELSE Strategy5(q, data)
    ELSE IF strategy = "coreFuzzy" THEN
        IF data = <<>> THEN Some(Req("coreRelaxed", CoreName(q), "0"))
        ELSE Strategy5(q, data)
    ELSE IF strategy = "coreRelaxed" THEN Strategy5(q, data)
    ELSE None

\* what searchOverpass returns: its own catch turns a throw into []
OverpassResult(threw, found) == IF threw THEN <<>> ELSE found

SearchErrorMessage == "Search error:"
OverpassErrorMessage == "Overpass API Error:"

\* the value lastStep takes: the kind of step, the call that took it as it was
\* before the step, and the list its request resolved with
Step(kind, call, found) == [kind |-> kind, call |-> call, found |-> found]
OtherStep == Step("other", None, <<>>)

\* fetchSuggestions(q) up to its first await
NewCall(q) == [q |-> q, awaits |-> Req("strict", q, "1"), calls |-> <<>>]

InFlight == BagToSet(cascades)

\* mutant: the effect returns no cleanup
AfterCleanupLeak(ts) == ts

\* the debounce effect's cleanup: clearTimeout of the timer it had set
AfterCleanup(ts) == {}

\* the debounce effect after a render with a new query: cleanup, then setTimeout
DebounceEffect(q) ==
    /\ timers' = AfterCleanup(timers) \cup {[q |-> q, left |-> DebounceMs]}
    /\ queryAge' = 0

\* the input's onChange; React renders again only when the value differs
setQuery(v) ==
    /\ v # query
    /\ query' = v
    /\ DebounceEffect(v)
    /\ lastStep' = OtherStep
    /\ UNCHANGED <<appVars, suggestions, isSearching, showSuggestions, searchResults,
                   cascades>>

\* time passes; a timer may fire late, never early
Advance(d) ==
    /\ timers' = {[t EXCEPT !.left = IF t.left > d THEN t.left - d ELSE 0] : t \in timers}
    /\ queryAge' = IF queryAge + d > DebounceMs THEN DebounceMs ELSE queryAge + d
    /\ \/ timers' # timers
       \/ queryAge' # queryAge
    /\ lastStep' = OtherStep
    /\ UNCHANGED <<appVars, query, suggestions, isSearching, showSuggestions,
                   searchResults, cascades>>

\* the timeout callback, with the query of the render that set it
TimerFires(t) ==
    /\ t \in timers
    /\ t.left = 0
    /\ timers' = timers \ {t}
    /\ IF TextLen(Trim(t.q)) >= MinQueryLen
       THEN \* fetchSuggestions(query) runs up to its first await
            /\ BagCardinality(cascades) < MaxCascades
            /\ isSearching' = TRUE
            /\ cascades' = cascades (+) SetToBag({NewCall(t.q)})
            /\ lastStep' = Step("started", Some(NewCall(t.q)), <<>>)
            /\ UNCHANGED <<suggestions, showSuggestions>>
       ELSE /\ suggestions' = <<>>
            /\ showSuggestions' = FALSE
            /\ lastStep' = OtherStep
            /\ UNCHANGED <<isSearching, cascades>>
    /\ UNCHANGED <<appVars, query, searchResults, queryAge>>

\* call c of fetchSuggestions got `data` from the request it awaited and runs
\* to its next await, or to its end: setSuggestions, setShowSuggestions, finally
Continue(c, data) ==
    LET next == NextRequest(c.q, c.awaits.strategy, data)
    IN  IF IsSome(next)
        THEN /\ cascades' = (cascades (-) SetToBag({c})) (+)
                     SetToBag({[q |-> c.q, awaits |-> Get(next),
                                calls |-> Append(c.calls, c.awaits)]})
             /\ UNCHANGED <<suggestions, showSuggestions, isSearching>>
        ELSE /\ cascades' = cascades (-) SetToBag({c})
             /\ suggestions' = data
             /\ showSuggestions' = TRUE
             /\ isSearching' = FALSE

\* the request call c awaits resolves with the list `found`
Resolve(c, found) ==
    /\ c \in InFlight
    /\ Continue(c, IF IsOverpass(c.awaits.strategy)
                   THEN OverpassResult(FALSE, found) ELSE found)
    /\ lastStep' = Step("resolved", Some(c), found)
    /\ UNCHANGED <<appVars, query, searchResults, timers, queryAge>>

\* mutant: the catch of fetchSuggestions clears the suggestions
RejectClearing(c) ==
    /\ c \in InFlight
    /\ IF IsOverpass(c.awaits.strategy)
       THEN /\ console' = console \cup {OverpassErrorMessage}
            /\ Continue(c, OverpassResult(TRUE, <<>>))
       ELSE /\ console' = console \cup {SearchErrorMessage}
            /\ cascades' = cascades (-) SetToBag({c})
            /\ isSearching' = FALSE
            /\ suggestions' = <<>>
            /\ showSuggestions' = FALSE
    /\ lastStep' = Step("rejected", Some(c), <<>>)
    /\ UNCHANGED <<storage, storageAccess, lastWrite, issued, phase, points, formVars,
                   filterVars, selectedSchoolId, persistPending, modalVars, query,
                   searchResults, timers, queryAge>>

\* mutant: searchOverpass has no catch of its own
RejectUnguarded(c) ==
    /\ c \in InFlight
    /\ console' = console \cup {SearchErrorMessage}
    /\ cascades' = cascades (-) SetToBag({c})
    /\ isSearching' = FALSE
    /\ UNCHANGED <<suggestions, showSuggestions>>
    /\ lastStep' = Step("rejected", Some(c), <<>>)
    /\ UNCHANGED <<storage, storageAccess, lastWrite, issued, phase, points, formVars,
                   filterVars, selectedSchoolId, persistPending, modalVars, query,
                   searchResults, timers, queryAge>>

\* the request call c awaits throws (fetch rejects, the body is no JSON, the
\* Overpass answer has no elements)
Reject(c) ==
    /\ c \in InFlight
    /\ IF IsOverpass(c.awaits.strategy)
       THEN \* caught inside searchOverpass
            /\ console' = console \cup {OverpassErrorMessage}
            /\ Continue(c, OverpassResult(TRUE, <<>>))
       ELSE \* the catch and finally of fetchSuggestions
            /\ console' = console \cup {SearchErrorMessage}
            /\ cascades' = cascades (-) SetToBag({c})
            /\ isSearching' = FALSE
            /\ UNCHANGED <<suggestions, showSuggestions>>
    /\ lastStep' = Step("rejected", Some(c), <<>>)
    /\ UNCHANGED <<storage, storageAccess, lastWrite, issued, phase, points, formVars,
                   filterVars, selectedSchoolId, persistPending, modalVars, query,
                   searchResults, timers, queryAge>>

mapNominatimResult(result) ==
    [place_id |-> result.place_id, name |-> FirstSegment(result.display_name),
     display_name |-> result.display_name]

\* a suggestion row is clicked; the rows are rendered while the dropdown shows
\* and no search is running
handleSelectLocation(place) ==
    /\ showSuggestions
    /\ ~isSearching
    /\ Includes(suggestions, place)
    /\ LET mapped == mapNominatimResult(place) IN
        /\ searchResults' = <<mapped>>
        /\ query' = mapped.name
        /\ IF mapped.name # query THEN DebounceEffect(mapped.name)
           ELSE UNCHANGED <<timers, queryAge>>
    /\ showSuggestions' = FALSE
    /\ lastStep' = OtherStep
    /\ UNCHANGED <<appVars, suggestions, isSearching, cascades>>

\* the form is submitted
handleSubmit ==
    /\ IF suggestions # <<>>
       THEN /\ searchResults' = SeqMap(suggestions, mapNominatimResult)
            /\ showSuggestions' = FALSE
       ELSE UNCHANGED <<searchResults, showSuggestions>>
    /\ lastStep' = OtherStep
    /\ UNCHANGED <<appVars, query, suggestions, isSearching, timers, queryAge, cascades>>

\* the clear button, rendered while the query is not empty
handleClear ==
    /\ TextLen(query) > 0
    /\ query' = <<>>
    /\ suggestions' = <<>>
    /\ showSuggestions' = FALSE
    /\ searchResults' = <<>>
    /\ DebounceEffect(<<>>)
    /\ lastStep' = OtherStep
    /\ UNCHANGED <<appVars, isSearching, cascades>>

\* the input's onFocus
onFocus ==
    /\ showSuggestions' = IF suggestions # <<>> \/ isSearching THEN TRUE
                          ELSE showSuggestions
    /\ lastStep' = OtherStep
    /\ UNCHANGED <<appVars, query, suggestions, isSearching, searchResults, timers,
                   queryAge, cascades>>

\* a mousedown outside the search box
handleClickOutside ==
    /\ showSuggestions' = FALSE
    /\ lastStep' = OtherStep
    /\ UNCHANGED <<appVars, query, suggestions, isSearching, searchResults, timers,
                   queryAge, cascades>>

(***************************************************************************)
(* Spec: one App instance                                                  *)
(***************************************************************************)
SearchIdle ==
    /\ query = <<>>
    /\ suggestions = <<>>
    /\ isSearching = FALSE
    /\ showSuggestions = FALSE
    /\ searchResults = <<>>
    /\ timers = {}
    /\ queryAge = DebounceMs
    /\ cascades = EmptyBag
    /\ lastStep = OtherStep

AppInit(Inst) ==
    /\ lastWrite = None
    /\ console = {}
    /\ issued = {}
    /\ phase = [i \in Inst |-> "unmounted"]
    /\ points = [i \in Inst |-> <<>>]
    /\ tempPoint = [i \in Inst |-> None]
    /\ name = [i \in Inst |-> ""]
    /\ district = [i \in Inst |-> ""]
    /\ count = [i \in Inst |-> None]
    /\ hiddenPointIds = [i \in Inst |-> <<>>]
    /\ selectedDistrict = [i \in Inst |-> ""]
    /\ selectedSchoolId = [i \in Inst |-> None]
    /\ persistPending = [i \in Inst |-> FALSE]
    /\ newVoterName = [i \in Inst |-> <<>>]
    /\ newVoterPhone = [i \in Inst |-> <<>>]

Init ==
    /\ AppInit({"A"})
    /\ storage \in InitialSlots
    /\ storageAccess \in {"ok", "denied"}
    /\ SearchIdle

Next ==
    \/ Mount("A")
    \/ PersistEffect("A")
    \/ Close("A")
    \/ \E c \in Coords : handleMapClick("A", c)
    \/ \E v \in NameInputs : setName("A", v)
    \/ \E v \in {"", "d1"} : setDistrict("A", v)
    \/ \E v \in CountInputs : setCount("A", v)
    \/ cancelSelection("A")
    \/ \E id \in FreshPointIds, now \in Times : handleAddPoint("A", id, now)
    \/ \E id \in CardIds("A") : handleDeletePoint("A", id)
    \/ \E id \in CardIds("A") : setSelectedSchoolId("A", id)
    \/ closeModal("A")
    \/ \E fn \in FullNames, ph \in {"07"}, id \in FreshVoterIds, now \in Times :
          handleAddVoter("A", fn, ph, id, now)
    \/ \E id \in RosterIds("A") : handleDeleteVoter("A", id)

Spec == Init /\ [][Next]_vars

(***************************************************************************)
(* SpecShared: two App instances (two tabs of one browser) over the slot.  *)
(* Each runs the form and the point handlers; the slot starts absent or    *)
(* with the list of an earlier session.                                    *)
(***************************************************************************)
Tabs == {"A", "B"}

InitShared ==
    /\ AppInit(Tabs)
    /\ storageAccess = "ok"
    /\ storage \in {Absent, Slot(JSONstringify(SavedSample))}
    /\ SearchIdle

NextShared ==
    \E i \in Tabs :
        \/ Mount(i)
        \/ PersistEffect(i)
        \/ \E c \in Coords : handleMapClick(i, c)
        \/ \E v \in {"a"} : setName(i, v)
        \/ \E v \in {"d1"} : setDistrict(i, v)
        \/ \E v \in {Some(5)} : setCount(i, v)
        \/ \E id \in FreshPointIds, now \in Times : handleAddPoint(i, id, now)
        \/ \E id \in CardIds(i) : handleDeletePoint(i, id)

SpecShared == InitShared /\ [][NextShared]_vars

(***************************************************************************)
(* SpecFilter: one App instance with the filter panel and the voter modal  *)
(* in use, opened on the list of an earlier session (three points in two   *)
(* districts, different counts, one roster).                               *)
(***************************************************************************)
FilterSample ==
    SavedSample \o
    <<[id |-> "s2", lat |-> 33, lng |-> 44, name |-> "a", district |-> "d1",
       count |-> 0, createdAt |-> 7],
      [id |-> "s3", lat |-> 33, lng |-> 44, name |-> "a", district |-> "d1",
       count |-> 3, createdAt |-> 7]>>

InitFilter ==
    /\ AppInit({"A"})
    /\ storageAccess = "ok"
    /\ storage = Slot(JSONstringify(FilterSample))
    /\ SearchIdle

NextFilter ==
    \/ Mount("A")
    \/ PersistEffect("A")
    \/ \E id \in CardIds("A") : handleDeletePoint("A", id)
    \/ \E id \in CardIds("A") : setSelectedSchoolId("A", id)
    \/ closeModal("A")
    \/ \E fn \in FullNames, ph \in {"07"}, id \in FreshVoterIds, now \in Times :
          handleAddVoter("A", fn, ph, id, now)
    \/ \E id \in RosterIds("A") : handleDeleteVoter("A", id)
    \/ \E d \in DistrictInputs : setSelectedDistrict("A", d)
    \/ \E id \in SavedPointIds : togglePointVisibility("A", id)
    \/ \E show \in BOOLEAN : toggleAllPoints("A", show)

SpecFilter == InitFilter /\ [][NextFilter]_vars

(***************************************************************************)
(* SpecSearch: one MapSearch component.  The services answer each request  *)
(* with a list of places or with a failure.                                *)
(***************************************************************************)
\* the texts typed into the input: '', 'a ', 'ab', 'girls abc'
QueryInputs ==
    {<<>>, <<"a", Space>>, <<"a", "b">>, <<"girls", Space, "a", "b", "c">>}

\* a place as the services return it
Place1 == [place_id |-> 1, display_name |-> <<"a", "b", Comma, "x">>]

\* the lists a request resolves with
Founds == {<<>>, <<Place1>>}

\* time steps, in milliseconds
Ticks == {250}

\* after the first render: the debounce effect has set its timer for ''
InitSearch ==
    /\ AppInit({"A"})
    /\ storageAccess = "ok"
    /\ storage = Absent
    /\ query = <<>>
    /\ suggestions = <<>>
    /\ isSearching = FALSE
    /\ showSuggestions = FALSE
    /\ searchResults = <<>>
    /\ timers = {[q |-> <<>>, left |-> DebounceMs]}
    /\ queryAge = 0
    /\ cascades = EmptyBag
    /\ lastStep = OtherStep

NextSearch ==
    \/ \E v \in QueryInputs : setQuery(v)
    \/ \E d \in Ticks : Advance(d)
    \/ \E t \in timers : TimerFires(t)
    \/ \E c \in InFlight, found \in Founds : Resolve(c, found)
    \/ \E c \in InFlight : Reject(c)
    \/ \E place \in {Place1} : handleSelectLocation(place)
    \/ handleSubmit
    \/ handleClear
    \/ onFocus
    \/ handleClickOutside

SpecSearch == InitSearch /\ [][NextSearch]_vars

(***************************************************************************)
(* SpecForm: one App instance with the form and the point list in use,     *)
(* opened on an empty slot or on two points of an earlier session.         *)
(***************************************************************************)
FormSample ==
    <<[id |-> "s1", lat |-> 33, lng |-> 44, name |-> "a", district |-> "d2",
       count |-> 5, createdAt |-> 7],
      [id |-> "s2", lat |-> 33, lng |-> 44, name |-> "a", district |-> "d1",
       count |-> 0, createdAt |-> 7]>>

InitForm ==
    /\ AppInit({"A"})
    /\ storageAccess = "ok"
    /\ storage \in {Absent, Slot(JSONstringify(FormSample))}
    /\ SearchIdle

NextForm ==
    \/ Mount("A")
    \/ PersistEffect("A")
    \/ \E c \in Coords : handleMapClick("A", c)
    \/ \E v \in NameInputs : setName("A", v)
    \/ \E v \in DistrictInputs : setDistrict("A", v)
    \/ \E v \in CountInputs : setCount("A", v)
    \/ cancelSelection("A")
    \/ \E id \in FreshPointIds, now \in Times : handleAddPoint("A", id, now)
    \/ \E id \in SavedPointIds \cup PointIds : handleDeletePoint("A", id)

SpecForm == InitForm /\ [][NextForm]_vars

(***************************************************************************)
(* SpecModal: one App instance with the voter modal in use, opened on      *)
(* three points of an earlier session.  The slot is read as it is: two of  *)
(* its rosters hold a voter of the same id.                                *)
(***************************************************************************)
ModalSample ==
    <<[id |-> "s1", lat |-> 33, lng |-> 44, name |-> "a", district |-> "d2",
       count |-> 5, createdAt |-> 7,
       voters |-> <<[id |-> "w1", fullName |-> "x", phoneNumber |-> "",
                     createdAt |-> 7]>>],
      [id |-> "s2", lat |-> 33, lng |-> 44, name |-> "a", district |-> "d1",
       count |-> 0, createdAt |-> 7,
       voters |-> <<[id |-> "w1", fullName |-> "x", phoneNumber |-> "07",
                     createdAt |-> 7]>>],
      [id |-> "s3", lat |-> 33, lng |-> 44, name |-> "a", district |-> "d1",
       count |-> 3, createdAt |-> 7]>>

InitModal ==
    /\ AppInit({"A"})
    /\ storageAccess = "ok"
    /\ storage = Slot(JSONstringify(ModalSample))
    /\ SearchIdle

NextModal ==
    \/ Mount("A")
    \/ PersistEffect("A")
    \/ \E id \in CardIds("A") : setSelectedSchoolId("A", id)
    \/ closeModal("A")
    \/ \E v \in NameTexts : setNewVoterName("A", v)
    \/ \E v \in PhoneTexts : setNewVoterPhone("A", v)
    \/ \E id \in FreshVoterIds, now \in Times : handleAdd("A", id, now)
    \/ \E id \in SavedVoterIds \cup VoterIds : handleDeleteVoter("A", id)

SpecModal == InitModal /\ [][NextModal]_vars

(***************************************************************************)
(* Claims about persistence (Spec)                                         *)
(***************************************************************************)
MountStep(i) == phase[i] = "unmounted" /\ phase'[i] # "unmounted"

\* getItem or JSON.parse throws on this slot
SlotThrows ==
    \/ storageAccess = "denied"
    \/ storage.has /\ storage.text # <<>> /\ ~JSONparse(storage.text).ok

\* C1: whenever the instance is mounted and its persist effect has run (none is
\* pending), the slot holds the JSON serialization of the current points
C1_StoreSynchronized ==
    \A i \in DOMAIN phase :
        (phase[i] = "mounted" /\ ~persistPending[i])
            => storage = Slot(JSONstringify(points[i]))

\* all four handlers have run (a third point was created although two are held
\* at most, a roster was emptied again) and the effect has run
C1_Witness ==
    /\ phase["A"] = "mounted" /\ ~persistPending["A"]
    /\ "p3" \in issued
    /\ Len(points["A"]) = 2
    /\ \E k \in 1..2 : HasVoters(points["A"][k]) /\ points["A"][k].voters = <<>>
    /\ \E k \in 1..2 : Len(VotersOf(points["A"][k])) = 1
    /\ storage = Slot(JSONstringify(points["A"]))

\* C3: construction always ends with the component mounted; with the slot
\* absent the initial points are empty; when reading or parsing throws, the
\* initial points are empty and the error is logged
C3_LoadNeverThrows ==
    [][\A i \in DOMAIN phase :
        MountStep(i) =>
            /\ phase'[i] = "mounted"
            /\ ~storage.has => points'[i] = <<>>
            /\ SlotThrows => (points'[i] = <<>> /\ LoadErrorMessage \in console')]_vars

\* the instance has just been constructed over a slot JSON.parse rejects
C3_Witness ==
    /\ phase["A"] = "mounted" /\ persistPending["A"]
    /\ lastWrite = None
    /\ storage.has /\ storage.text # <<>> /\ ~JSONparse(storage.text).ok
    /\ points["A"] = <<>>
    /\ LoadErrorMessage \in console

\* C10: an instance constructed over the slot another persist wrote last starts
\* with exactly the points that persist was given, rosters included
C10_RoundTrip ==
    [][\A i \in DOMAIN phase :
        (MountStep(i) /\ storageAccess = "ok" /\ IsSome(lastWrite))
            => points'[i] = Get(lastWrite).points]_vars

\* a page reopened over two persisted points, one of them with a voter
C10_Witness ==
    /\ phase["A"] = "mounted" /\ persistPending["A"]
    /\ selectedSchoolId["A"] = None
    /\ IsSome(lastWrite)
    /\ points["A"] = Get(lastWrite).points
    /\ Len(points["A"]) = 2
    /\ \E k \in 1..2 : Len(VotersOf(points["A"][k])) = 1
    /\ \E k \in 1..2 : ~HasVoters(points["A"][k])

(***************************************************************************)
(* Claims about two instances (SpecShared)                                 *)
(***************************************************************************)
\* C2: once every instance has persisted (all mounted, no effect pending), the
\* slot is the serialization of the points of the instance that wrote last,
\* and of nothing else
C2_LastWriteWins ==
    (/\ IsSome(lastWrite)
     /\ \A i \in DOMAIN phase : phase[i] = "mounted" /\ ~persistPending[i])
        => storage = Slot(JSONstringify(points[Get(lastWrite).by]))

\* both tabs have persisted, A last; B holds a point A does not, and the slot
\* does not hold it either
C2_Witness ==
    /\ \A i \in Tabs : phase[i] = "mounted" /\ ~persistPending[i]
    /\ IsSome(lastWrite) /\ Get(lastWrite).by = "A"
    /\ points["A"] # <<>>
    /\ \E id \in IdsOf(points["B"]) :
        /\ id \notin IdsOf(points["A"])
        /\ id \notin IdsOf(LoadPoints(storage, storageAccess).points)

(***************************************************************************)
(* Claims about the filter (SpecFilter)                                    *)
(***************************************************************************)
RECURSIVE PickFrom(_, _, _)
\* the elements of s at the positions in idx that are >= k, in order
PickFrom(s, idx, k) ==
    IF k > Len(s) THEN <<>>
    ELSE (IF k \in idx THEN <<s[k]>> ELSE <<>>) \o PickFrom(s, idx, k + 1)

\* the positions of the points the filter lets through
ShownPositions(i) ==
    {k \in 1..Len(points[i]) :
        /\ selectedDistrict[i] = "" \/ points[i][k].district = selectedDistrict[i]
        /\ \A h \in 1..Len(hiddenPointIds[i]) : hiddenPointIds[i][h] # points[i][k].id}

\* C9: filteredPoints is the subsequence of points, in points order, of the
\* points in the selected district (any district when none is selected) whose
\* id is not hidden
C9_FilterExact ==
    \A i \in DOMAIN phase :
        FilteredPoints(i) = PickFrom(points[i], ShownPositions(i), 1)

\* three points, a district selected that excludes one, another one hidden:
\* exactly the third is shown
C9_Witness ==
    /\ Len(points["A"]) = 3
    /\ selectedDistrict["A"] = "d1"
    /\ hiddenPointIds["A"] = <<"s2">>
    /\ Len(FilteredPoints("A")) = 1
    /\ FilteredPoints("A")[1].id = "s3"

(***************************************************************************)
(* Claims about MapSearch (SpecSearch)                                     *)
(***************************************************************************)
\* the place of a strategy in the cascade
Rank(strategy) ==
    CASE strategy = "strict" -> 1
      [] strategy = "fuzzy" -> 2
      [] strategy = "relaxed" -> 3
      [] strategy = "coreFuzzy" -> 4
      [] strategy = "coreRelaxed" -> 5
      [] strategy = "prefix" -> 6

\* the request each strategy makes for searchQuery q
Canonical(q, strategy) ==
    CASE strategy = "strict" -> Req("strict", q, "1")
      [] strategy = "fuzzy" -> Req("fuzzy", q, "-")
      [] strategy = "relaxed" -> Req("relaxed", q, "0")
      [] strategy = "coreFuzzy" -> Req("coreFuzzy", CoreName(q), "-")
      [] strategy = "coreRelaxed" -> Req("coreRelaxed", CoreName(q), "0")
      [] strategy = "prefix" -> Req("prefix", <<Madrasa, Space>> \o q, "1")

\* the requests call c has issued, the awaited one last
IssuedBy(c) == Append(c.calls, c.awaits)

\* call c has issued its requests in the order of the cascade: strict, fuzzy and
\* relaxed first, the core-name pair together, the prefix retry last
InOrder(c) ==
    LET r == IssuedBy(c) IN
    /\ \A j \in 1..Len(r) : r[j] = Canonical(c.q, r[j].strategy)
    /\ \A j \in 1..(Len(r) - 1) : Rank(r[j].strategy) < Rank(r[j + 1].strategy)
    /\ r[1].strategy = "strict"
    /\ Len(r) >= 2 => r[2].strategy = "fuzzy"
    /\ Len(r) >= 3 => r[3].strategy = "relaxed"
    /\ \A j \in 1..Len(r) :
          r[j].strategy = "coreRelaxed" => (j > 1 /\ r[j - 1].strategy = "coreFuzzy")

\* call c is replaced by the same call awaiting one more request
GoesOn(c) ==
    \E c2 \in BagToSet(cascades') :
        /\ cascades' = (cascades (-) SetToBag({c})) (+) SetToBag({c2})
        /\ c2.q = c.q
        /\ c2.calls = IssuedBy(c)

\* call c has returned
Returns(c) == cascades' = cascades (-) SetToBag({c})

\* C4: every call a step starts or moves on has issued its requests in the strict
\* order of the cascade (none is in flight initially); when a request resolves
\* with a non-empty list the call issues no
\* further request and that list becomes the suggestions; when it resolves with
\* the empty list the call either issues a later strategy or stores the empty list
C4_CascadeOrder ==
    [][/\ \A c \in BagToSet(cascades') \ BagToSet(cascades) : InOrder(c)
       /\ lastStep'.kind = "resolved" =>
            LET c == Get(lastStep'.call)
                found == lastStep'.found
            IN  IF found # <<>>
                THEN Returns(c) /\ suggestions' = found /\ showSuggestions'
                ELSE \/ GoesOn(c)
                     \/ Returns(c) /\ suggestions' = <<>> /\ showSuggestions']_vars

\* all strategies returned nothing but the prefix retry, whose result is stored
C4_Witness ==
    /\ lastStep.kind = "resolved"
    /\ lastStep.found = <<Place1>>
    /\ Get(lastStep.call).awaits.strategy = "prefix"
    /\ Len(Get(lastStep.call).calls) = 5
    /\ suggestions = <<Place1>>

\* C5: at most one fetchSuggestions call is in flight at any time
C5_AtMostOneCascade == BagCardinality(cascades) <= 1

\* C6: a pending timer is the one of the current query, set when the query last
\* changed; a call of fetchSuggestions is started only by the timer callback, for
\* the query that has been current for 500 ms and whose trimmed length is >= 2
C6_Debounced ==
    [][/\ Cardinality(timers') <= 1
       /\ \A t \in timers' : t.q = query' /\ t.left = 500 - queryAge'
       /\ BagCardinality(cascades') > BagCardinality(cascades) =>
            lastStep'.kind = "started"
       /\ lastStep'.kind = "started" =>
            LET c == Get(lastStep'.call) IN
            /\ c.q = query
            /\ queryAge >= 500
            /\ TextLen(Trim(c.q)) >= 2
            /\ cascades' = cascades (+) SetToBag({c})
            /\ IssuedBy(c) = <<Req("strict", c.q, "1")>>]_vars

\* the timer of 'girls abc' fired after the query had replaced an earlier one
\* whose suggestions are still shown
C6_Witness ==
    /\ lastStep.kind = "started"
    /\ Get(lastStep.call).q = <<"girls", Space, "a", "b", "c">>
    /\ query = <<"girls", Space, "a", "b", "c">>
    /\ queryAge = 500
    /\ timers = {}
    /\ suggestions = <<Place1>>

C8_OverpassFailureSwallowed ==
    [][(/\ lastStep'.kind = "rejected"
        /\ Get(lastStep'.call).awaits.strategy \in {"fuzzy", "coreFuzzy"}) =>
            LET c == Get(lastStep'.call)
                relaxed == IF c.awaits.strategy = "fuzzy" THEN "relaxed" ELSE "coreRelaxed"
            IN  /\ cascades' = (cascades (-) SetToBag({c})) (+)
                        SetToBag({[q |-> c.q,
                                   awaits |-> Req(relaxed, c.awaits.q, "0"),
                                   calls |-> IssuedBy(c)]})
                /\ "Search error:" \in console' => "Search error:" \in console
                /\ UNCHANGED <<suggestions, showSuggestions, isSearching>>]_vars

\* the Overpass request of strategy 2 failed and the call awaits relaxed geocoding
C8_Witness ==
    /\ lastStep.kind = "rejected"
    /\ Get(lastStep.call).awaits.strategy = "fuzzy"
    /\ \E c \in InFlight :
          /\ c.awaits = Req("relaxed", Get(lastStep.call).q, "0")
          /\ c.calls = IssuedBy(Get(lastStep.call))
    /\ isSearching
    /\ "Overpass API Error:" \in console

(***************************************************************************)
(* Claims about the handlers of App                                        *)
(***************************************************************************)
\* some call of handleAddPoint by instance i
AddPointStep(i) == \E id \in PointIds, now \in Times : handleAddPoint(i, id, now)

\* C11: a step of handleAddPoint taken while tempPoint is null, or name, district
\* or count is empty, leaves points, tempPoint and the form fields unchanged (that
\* a count of 0 does not block the add is the witness's first half)
C11_AddPointNoOp ==
    [][\A i \in DOMAIN phase :
          (/\ AddPointStep(i)
           /\ \/ tempPoint[i] = None
              \/ name[i] = ""
              \/ district[i] = ""
              \/ count[i] = None)
            => UNCHANGED <<points, tempPoint, name, district, count>>]_vars

\* a point with count 0 has been added, and the form is open again with a name
\* but no district
C11_Witness ==
    /\ \E k \in 1..Len(points["A"]) :
          points["A"][k].count = 0 /\ points["A"][k].id \in issued
    /\ Ready("A")
    /\ tempPoint["A"] # None
    /\ name["A"] = "a"
    /\ district["A"] = ""
    /\ count["A"] = Some(5)

\* C12: a step of handleAddPoint taken with the form complete appends exactly
\* one point with a new id, tempPoint's lat and lng, the form's name, district
\* and count and no voters; the points held before are the same, in the same
\* order, in front of it; tempPoint is null and the form fields are empty after
C12_AddPointAppends ==
    [][\A i \in DOMAIN phase :
          (/\ AddPointStep(i)
           /\ tempPoint[i] # None
           /\ name[i] # ""
           /\ district[i] # ""
           /\ count[i] # None)
            => LET n == Len(points[i])
                   new == points'[i][n + 1]
               IN  /\ Len(points'[i]) = n + 1
                   /\ SubSeq(points'[i], 1, n) = points[i]
                   /\ new.id \notin IdsOf(points[i])
                   /\ new.lat = Get(tempPoint[i]).lat
                   /\ new.lng = Get(tempPoint[i]).lng
                   /\ new.name = name[i]
                   /\ new.district = district[i]
                   /\ new.count = Get(count[i])
                   /\ new.count \in Nat
                   /\ "voters" \notin DOMAIN new
                   /\ tempPoint'[i] = None
                   /\ name'[i] = ""
                   /\ district'[i] = ""
                   /\ count'[i] = None]_vars

\* a point has just been added behind a point of the earlier session
C12_Witness ==
    /\ Len(points["A"]) = 2
    /\ points["A"][1].id \in SavedPointIds
    /\ points["A"][2].id \in issued
    /\ persistPending["A"]
    /\ tempPoint["A"] = None
    /\ name["A"] = ""
    /\ district["A"] = ""
    /\ count["A"] = None

\* C13: a step of handleDeletePoint(id) leaves in points exactly the points
\* whose id differs from id, in their order; points is the same when no point has
\* the id; tempPoint and the form fields are unchanged
C13_DeletePointExact ==
    [][\A i \in DOMAIN phase : \A id \in SavedPointIds \cup PointIds :
          handleDeletePoint(i, id)
            => /\ points'[i] =
                    PickFrom(points[i],
                             {k \in 1..Len(points[i]) : points[i][k].id # id}, 1)
               /\ id \notin IdsOf(points[i]) => points'[i] = points[i]
               /\ UNCHANGED <<tempPoint, name, district, count>>]_vars

\* the first of two points was deleted while the form was filled in: the second
\* is left and the form is as it was
C13_Witness ==
    /\ Len(points["A"]) = 1
    /\ points["A"][1].id = "s2"
    /\ persistPending["A"]
    /\ tempPoint["A"] # None
    /\ name["A"] = "a"
    /\ district["A"] = "d1"
    /\ count["A"] = Some(5)

C15_DeleteVoterFrame ==
    [][\A i \in DOMAIN phase : \A voterId \in SavedVoterIds \cup VoterIds :
          handleDeleteVoter(i, voterId)
            => IF selectedSchoolId[i] = None
               THEN points'[i] = points[i]
               ELSE /\ Len(points'[i]) = Len(points[i])
                    /\ \A k \in 1..Len(points[i]) :
                          LET p == points[i][k]
                              q == points'[i][k]
                              vs == VotersOf(p)
                          IN  IF p.id = Get(selectedSchoolId[i])
                              THEN /\ VotersOf(q) =
                                         PickFrom(vs, {m \in 1..Len(vs) :
                                                          vs[m].id # voterId}, 1)
                                   /\ DOMAIN q = DOMAIN p \cup {"voters"}
                                   /\ \A f \in DOMAIN p \ {"voters"} : q[f] = p[f]
                              ELSE q = p]_vars

\* w1 was deleted from the roster of s1 while s1 was selected: s2 still holds
\* its own voter w1
C15_Witness ==
    /\ selectedSchoolId["A"] = Some("s1")
    /\ persistPending["A"]
    /\ Len(points["A"]) = 3
    /\ points["A"][1] = [ModalSample[1] EXCEPT !.voters = <<>>]
    /\ points["A"][2] = ModalSample[2]
    /\ points["A"][3] = ModalSample[3]

\* the contiguous parts of a text
Pieces(u) == {SubSeq(u, a, b) : a \in 1..(Len(u) + 1), b \in 0..Len(u)}

\* t is u without its leading and trailing spaces
IsTrimOf(t, u) ==
    \E a \in 0..Len(u), b \in 0..Len(u) :
        /\ a + b <= Len(u)
        /\ t = SubSeq(u, a + 1, Len(u) - b)
        /\ \A k \in 1..a : u[k] = Space
        /\ \A k \in (Len(u) - b + 1)..Len(u) : u[k] = Space
        /\ t = <<>> \/ (t[1] # Space /\ t[Len(t)] # Space)

\* C16: a step of the modal's handleAdd with a name input that is empty or all
\* spaces changes neither points nor the inputs; with any other name input it
\* appends to the selected roster one voter whose fullName is the name input
\* without its leading and trailing spaces (so non-empty, no space at either
\* end) and whose phoneNumber is the phone input without them, changes no
\* other point, and empties both inputs
C16_ModalAddTrims ==
    [][\A i \in DOMAIN phase : \A id \in VoterIds, now \in Times :
          handleAdd(i, id, now)
            => IF \A k \in 1..Len(newVoterName[i]) : newVoterName[i][k] = Space
               THEN UNCHANGED <<points, issued, newVoterName, newVoterPhone>>
               ELSE /\ \E tn \in Pieces(newVoterName[i]), tp \in Pieces(newVoterPhone[i]) :
                         /\ IsTrimOf(tn, newVoterName[i])
                         /\ IsTrimOf(tp, newVoterPhone[i])
                         /\ tn # <<>> /\ TextOf(tn) # ""
                         /\ Len(points'[i]) = Len(points[i])
                         /\ \A k \in 1..Len(points[i]) :
                               IF points[i][k].id = Get(selectedSchoolId[i])
                               THEN VotersOf(points'[i][k]) =
                                        Append(VotersOf(points[i][k]),
                                               [id |-> id, fullName |-> TextOf(tn),
                                                phoneNumber |-> TextOf(tp),
                                                createdAt |-> now])
                               ELSE points'[i][k] = points[i][k]
                    /\ newVoterName'[i] = <<>>
                    /\ newVoterPhone'[i] = <<>>]_vars

\* ' x y ' and ' 07' were typed and submitted with s3 selected: its roster
\* holds the voter 'x y' with phone '07', and both inputs are empty
C16_Witness ==
    /\ selectedSchoolId["A"] = Some("s3")
    /\ Len(points["A"]) = 3
    /\ Len(VotersOf(points["A"][3])) = 1
    /\ VotersOf(points["A"][3])[1].id \in issued
    /\ VotersOf(points["A"][3])[1].fullName = "x y"
    /\ VotersOf(points["A"][3])[1].phoneNumber = "07"
    /\ newVoterName["A"] = <<>>
    /\ newVoterPhone["A"] = <<>>
    /\ persistPending["A"]

\* C17: after a step of toggleAllPoints(false) the id of every point of points
\* is hidden, so filteredPoints is empty, and would be with any district (or
\* none) selected; after a step of toggleAllPoints(true) hiddenPointIds is
\* empty and filteredPoints is districtFilteredPoints
C17_ToggleAll ==
    [][\A i \in DOMAIN phase :
          /\ toggleAllPoints(i, FALSE)
                => /\ \A k \in 1..Len(points'[i]) :
                         Includes(hiddenPointIds'[i], points'[i][k].id)
                   /\ FilteredPoints(i)' = <<>>
                   /\ \A d \in DistrictInputs : FilteredPointsFor(i, d)' = <<>>
          /\ toggleAllPoints(i, TRUE)
                => /\ hiddenPointIds'[i] = <<>>
                   /\ FilteredPoints(i)' = DistrictFilteredPoints(i)']_vars

\* district d1 is selected and all three points are hidden, s1 of district d2
\* among them
C17_Witness ==
    /\ phase["A"] = "mounted"
    /\ selectedDistrict["A"] = "d1"
    /\ Len(points["A"]) = 3
    /\ points["A"][1].district = "d2"
    /\ hiddenPointIds["A"] = <<"s1", "s2", "s3">>
    /\ FilteredPoints("A") = <<>>

\* the set of the ids a list holds
IdSet(ids) == {ids[k] : k \in 1..Len(ids)}

\* C18: a step of togglePointVisibility(id) adds id to the set of hidden ids
\* when it is not in it and removes it when it is, keeps every other id in or
\* out of the set as it was, and a second toggle of the same id gives back the
\* set of before the step
C18_ToggleInvolution ==
    [][\A i \in DOMAIN phase : \A id \in SavedPointIds :
          togglePointVisibility(i, id)
            => LET before == IdSet(hiddenPointIds[i])
                   after == IdSet(hiddenPointIds'[i])
               IN  /\ id \notin before => after = before \cup {id}
                   /\ id \in before => after = before \ {id}
                   /\ \A o \in (before \cup after) \ {id} : o \in before <=> o \in after
                   /\ IdSet(ToggleId(hiddenPointIds'[i], id)) = before
                   /\ IdSet(ToggleId(ToggleId(hiddenPointIds[i], id), id)) = before]_vars

\* with all three points in the list, s3 and s1 are hidden, s1 hidden last: a
\* row was clicked while another id was hidden
C18_Witness ==
    /\ phase["A"] = "mounted"
    /\ Len(points["A"]) = 3
    /\ hiddenPointIds["A"] = <<"s3", "s1">>

RECURSIVE CountOver(_, _)
\* the sum of count over the points of instance i at the positions in S
CountOver(i, S) ==
    IF S = {} THEN 0
    ELSE LET k == CHOOSE m \in S : TRUE
         IN  points[i][k].count + CountOver(i, S \ {k})

\* the totals are those of the points the filter lets through
TotalsFollowFilter ==
    \A i \in DOMAIN phase :
        /\ LocationTotal(i) = Cardinality(ShownPositions(i))
        /\ VoterTotal(i) = CountOver(i, ShownPositions(i))

\* C19: the location total is the number of points that are in the selected
\* district (any, when none is selected) and not hidden, the voter total is
\* the sum of their count fields, and a step of handleAddVoter or of
\* handleDeleteVoter leaves the voter total as it was
C19_Totals ==
    /\ []TotalsFollowFilter
    /\ [][\A i \in DOMAIN phase :
            (\/ \E fn \in FullNames, ph \in PhoneNumbers, id \in VoterIds, now \in Times :
                  handleAddVoter(i, fn, ph, id, now)
             \/ \E id \in SavedVoterIds \cup VoterIds : handleDeleteVoter(i, id))
                => VoterTotal(i)' = VoterTotal(i)]_vars

\* district d1 is selected and s2 is hidden: the list shows s3 alone, which
\* got a voter; the totals are 1 and 3 while the counts of all points sum to 8
C19_Witness ==
    /\ selectedDistrict["A"] = "d1"
    /\ hiddenPointIds["A"] = <<"s2">>
    /\ Len(points["A"]) = 3
    /\ Len(VotersOf(points["A"][3])) = 1
    /\ VotersOf(points["A"][3])[1].id \in issued
    /\ LocationTotal("A") = 1
    /\ VoterTotal("A") = 3
    /\ SumCount(points["A"]) = 8

====
